---- MODULE Spec2Model ----
(***************************************************************************)
(* webxenon: a depth-bounded crawler over a MySQL frontier (`queue`) and a *)
(* page store (`pages`).  The model follows the WebCrawler class with the  *)
(* depth column (dequeueUrl / start / processPage / createTables /         *)
(* queueUrls).  Every `await connection.query(...)` is one atomic step at  *)
(* the database; the synchronous code between two awaits belongs to the    *)
(* step that precedes it.                                                  *)
(*                                                                         *)
(* Spec            the crawl with every statement succeeding, and main's   *)
(*                 configuration test                                      *)
(* SpecStop        Spec with stop() and the crawler's 'drain' event        *)
(* SpecClaimFaults Spec with a failing SELECT or UPDATE in dequeueUrl      *)
(* SpecFaults      Spec with every failing statement: createTables,        *)
(*                 dequeueUrl, the page upsert and queueUrls               *)
(* SpecEnqueueFaults  Spec with queueUrls calls that fail and roll back    *)
(* SpecCrawl       the older class of src/WebCrawler.ts (start, crawl,     *)
(*                 queueUrls, markUrlAsCrawled, getNextUrl) on its own     *)
(***************************************************************************)
EXTENDS Integers, Sequences, FiniteSets, TLC

\* ------------------------------------------------------------------ bounds
\* concurrent invocations of start() against the same database
NumRuns == 2
\* invocations of the processPage callback by the crawler library
MaxFetches == 2
\* largest maxDepth value passed in options
MaxConfigDepth == 2

Runs == 1..NumRuns
Fetches == 1..MaxFetches

\* ------------------------------------------------------------- JS values
\* `undefined` where a url string is expected: a sequence that is no url
Undefined == <<"undefined">>

\* obj[name] on a plain object: a missing property reads as undefined
Field(obj, name) == IF name \in DOMAIN obj THEN obj[name] ELSE Undefined

\* ---------------------------------------------------------- configuration
\* options.maxDepth || 3 : undefined and 0 are both falsy
DefaultMaxDepth == 3
NotSet == -1
MaxDepthOptions == {NotSet} \cup (0..MaxConfigDepth)
ConstructMaxDepth(opt) == IF opt = NotSet \/ opt = 0 THEN DefaultMaxDepth ELSE opt

\* options.maxConnections || 10, given to this.crawler only.  The crawl under
\* study is configured with MAX_CONNECTIONS=1.
DefaultMaxConnections == 10
MaxConnectionsOption == 1
ConstructMaxConnections(opt) ==
  IF opt = NotSet \/ opt = 0 THEN DefaultMaxConnections ELSE opt
maxConnections == ConstructMaxConnections(MaxConnectionsOption)

\* options.urlColumnName || "url"
urlColumnName == "url"

\* URLs are sequences of path tokens, so that startsWith is a real prefix test
targetUrl == <<"t">>
UrlA == <<"t", "a">>
UrlB == <<"t", "b">>
UrlX == <<"x">>

\* (mutation) the scope test left out of the filter
StartsWithAnything(s, prefix) == TRUE

\* link.startsWith(this.targetUrl)
StartsWith(s, prefix) ==
  Len(s) >= Len(prefix) /\ SubSeq(s, 1, Len(prefix)) = prefix

\* `link && ...`: undefined and "" are falsy
Truthy(link) == link # Undefined /\ link # <<>>

\* the decimal digits, in order: the digit d is Digits[d + 1]
Digits == <<"0", "1", "2", "3", "4", "5", "6", "7", "8", "9">>
DigitValue(c) == (CHOOSE i \in 1..Len(Digits) : Digits[i] = c) - 1

\* parseInt(s, 10) on a string of decimal digits
RECURSIVE ParseInt(_)
ParseInt(s) ==
  IF Len(s) = 1 THEN DigitValue(s[1])
  ELSE 10 * ParseInt(SubSeq(s, 1, Len(s) - 1)) + DigitValue(s[Len(s)])

\* the values of the MAX_DEPTH environment variable: unset, empty, or a number
MaxDepthEnv == {Undefined, <<>>} \cup {<<Digits[d + 1]>> : d \in 0..MaxConfigDepth}

\* maxDepth: MAX_DEPTH ? parseInt(MAX_DEPTH, 10) : undefined
OptionsMaxDepth(v) == IF Truthy(v) THEN ParseInt(v) ELSE NotSet

\* the elements of a sequence
Range0(s) == {s[i] : i \in 1..Len(s)}

\* Array.prototype.filter: keeps the order and the duplicates
RECURSIVE FilterSeq(_, _)
FilterSeq(s, prefix) ==
  IF s = <<>> THEN <<>>
  ELSE IF Truthy(Head(s)) /\ StartsWith(Head(s), prefix)
         THEN <<Head(s)>> \o FilterSeq(Tail(s), prefix)
         ELSE FilterSeq(Tail(s), prefix)

\* $("a").map(href).get().filter(link => link && link.startsWith(targetUrl))
ExtractLinks(doc) == FilterSeq(doc.hrefs, targetUrl)

\* Fetched documents: what the selectors and $("a") yield on them.
\* DocIndex has two links in scope and one out of scope.
DocIndex == [title |-> "Index", description |-> "index page", html |-> "<index>",
             hrefs |-> <<UrlA, UrlB, UrlX>>]
DocLeaf  == [title |-> "Leaf", description |-> "leaf page", html |-> "<leaf>",
             hrefs |-> <<Undefined, UrlB>>]
Docs == {DocIndex, DocLeaf}

\* from-depth recorded for the seed row, which no page produced
SeedFrom == 0 - 1

VARIABLES
  maxDepth,     \* this.maxDepth, NotSet until the constructor has run
  queue,        \* rows of the queue table: [id, url, depth, is_crawled, txn]
  nextId,       \* AUTO_INCREMENT of the queue table
  pages,        \* rows of the pages table: [id, url, title, description, raw_html]
  nextPageId,   \* AUTO_INCREMENT of the pages table
  pc,           \* position of each start() invocation
  sel,          \* `rows` of the dequeueUrl call in progress
  claimLog,     \* per run: the rows its dequeueUrl calls marked, with what they returned
  dispatched,   \* per run: the urls handed to crawler.queue
  cb,           \* per fetch: the processPage invocation
  enq,          \* per fetch: the queueUrls call processPage started (not awaited)
  inserted,     \* history: [url, depth, from] of every queue INSERT that succeeded
  skipped,      \* history: [url, from] of every queue INSERT that hit ER_DUP_ENTRY
  lastPersist,  \* history: per url, the tuple of the last page write attempted
  visitedAtStart, \* per run, while it runs: the urls already marked when it started
  listeners,    \* this.crawler: the events that have a listener
  poolEnded,    \* this.pool.end() was called
  stopPc,       \* "running", "stopping" once stop() was called, then "drained"
  tables,       \* the tables that exist in the database
  exitStatus,   \* the status the process exited with, NotSet while it runs
  faulted,      \* history: <<step, run or fetch>> of every statement that failed
  crawl,        \* per fetch: the invocation of the older callback, crawl
  conns         \* per operation: the pooled connections it has checked out

vars == <<maxDepth, queue, nextId, pages, nextPageId, pc, sel, claimLog,
          dispatched, cb, enq, inserted, skipped, lastPersist, visitedAtStart,
          listeners, poolEnded, stopPc, tables, exitStatus, faulted, crawl,
          conns>>

dbVars == <<queue, nextId, pages, nextPageId>>
runVars == <<pc, sel, claimLog, dispatched, visitedAtStart>>
histVars == <<inserted, skipped, lastPersist>>
lifeVars == <<listeners, poolEnded, stopPc>>
sysVars == <<tables, exitStatus, faulted>>
crawlVars == <<crawl>>

\* the urls of the rows that are marked
Visited(q) == {r.url : r \in {x \in q : x.is_crawled = 1}}

\* ------------------------------------------------------------------- pool
\* the operations that take a connection from the pool: a start() invocation
\* (createTables, dequeueUrl), a processPage invocation, the queueUrls call it
\* started, a crawl invocation
Holders == ({"run"} \X Runs) \cup ({"page", "enq", "crawl"} \X Fetches)

\* await this.pool.getConnection()
Acquire(c, h) == [c EXCEPT ![h] = @ + 1]

\* (mutation) a path that leaves without connection.release()
ReleaseSkipped(c, h) == c

\* connection.release()
Release(c, h) == [c EXCEPT ![h] = @ - 1]

\* getConnection, try { ... } finally { release }, all within one step
Scoped(c, h) == Release(Acquire(c, h), h)

\* the process ends: its pool and every connection of it are closed
PoolClosed == [h \in Holders |-> 0]

\* ------------------------------------------------------------ queue table
\* (mutation) the queue table without its unique key
DupEntryNoKey(q, url) == FALSE

\* UNIQUE KEY on the url column: an INSERT of a url that has a row fails with
\* ER_DUP_ENTRY
DupEntry(q, url) == \E r \in q : r.url = url

\* INSERT INTO queue (url, depth) VALUES (?, ?): is_crawled defaults to 0.
\* txn is 0 for an autocommit statement and committed rows.
InsertRow(q, id, url, depth, txn) ==
  q \cup {[id |-> id, url |-> url, depth |-> depth, is_crawled |-> 0, txn |-> txn]}

\* An INSERT waits while another transaction holds an uncommitted row of the url
InsertWaits(q, url, txn) == \E r \in q : r.url = url /\ r.txn # 0 /\ r.txn # txn

\* (mutation) the claim's SELECT without `is_crawled = 0`
EligibleAnyFlag(q, limit) == {r \in q : r.txn = 0 /\ r.depth <= limit}

\* (mutation) ORDER BY depth ASC, id DESC
BeforeNewestFirst(r, s) == r.depth < s.depth \/ (r.depth = s.depth /\ r.id > s.id)

\* ORDER BY depth ASC, id ASC
Before(r, s) == r.depth < s.depth \/ (r.depth = s.depth /\ r.id < s.id)

\* WHERE is_crawled = 0 AND depth <= ?  (a plain SELECT reads committed rows)
Eligible(q, limit) ==
  {r \in q : r.txn = 0 /\ r.is_crawled = 0 /\ r.depth <= limit}

\* SELECT id FROM queue WHERE ... ORDER BY depth, id LIMIT 1
\* The result rows carry the selected column only.
SelectNext(q, limit) ==
  LET e == Eligible(q, limit)
  IN  IF e = {} THEN <<>>
      ELSE LET first == CHOOSE r \in e : \A s \in e : s = r \/ Before(r, s)
           IN  <<[id |-> first.id]>>

\* UPDATE queue SET is_crawled = 1 WHERE id IN (ids)
MarkIds(q, ids) ==
  {IF r.id \in ids THEN [r EXCEPT !.is_crawled = 1] ELSE r : r \in q}

\* UPDATE queue SET is_crawled = 1 WHERE url = ?
MarkUrl(q, url) ==
  {IF r.url = url THEN [r EXCEPT !.is_crawled = 1] ELSE r : r \in q}

\* connection.commit(): the rows the transaction inserted become visible
CommitRows(q, txn) ==
  {IF r.txn = txn THEN [r EXCEPT !.txn = 0] ELSE r : r \in q}

\* the depth queueUrls writes for a discovered link: VALUES (?, ?) with [url, 0]
QueuedDepth(parentDepth) == 0

\* ------------------------------------------------------------ pages table
\* SELECT * FROM pages WHERE url = ?
PageRows(pg, url) == {r \in pg : r.url = url}

\* the (url, title, description, raw_html) tuple processPage writes
PageTuple(url, doc) ==
  [url |-> url, title |-> doc.title, description |-> doc.description,
   raw_html |-> doc.html]

\* UPDATE pages SET title = ?, description = ?, raw_html = ? WHERE url = ?
UpdatePage(pg, url, doc) ==
  {IF r.url = url
     THEN [r EXCEPT !.title = doc.title, !.description = doc.description,
                    !.raw_html = doc.html]
     ELSE r : r \in pg}

\* INSERT INTO pages (url, title, description, raw_html) VALUES (?, ?, ?, ?)
InsertPage(pg, id, url, doc) ==
  pg \cup {[id |-> id, url |-> url, title |-> doc.title,
            description |-> doc.description, raw_html |-> doc.html]}

\* UNIQUE KEY on the url column of pages
DupPage(pg, url) == \E r \in pg : r.url = url

\* ------------------------------------------------------- processPage parts
\* `if (error) { log; done(); return; }`
OnCallback(error) == IF error THEN "done" ELSE "pageWrite"

\* (mutation) the gate with <= for <
ExpandsInclusive(depth, limit) == depth <= limit

\* `if (depth < this.maxDepth)`: the gate of link extraction and enqueue
Expands(depth, limit) == depth < limit

NoDoc == [title |-> "", description |-> "", html |-> "", hrefs |-> <<>>]
IdleCb == [pc |-> "idle", failed |-> FALSE, uri |-> Undefined, depth |-> 0,
           doc |-> NoDoc, found |-> FALSE, outcome |-> "none", doneCalls |-> 0]
\* done(): one more call of the continuation the crawler library passed in
Done(c) == [c EXCEPT !.doneCalls = @ + 1]
Finished(c, outcome) ==
  [c EXCEPT !.pc = "done", !.doc = NoDoc, !.found = FALSE, !.outcome = outcome]
NoEnq == [pc |-> "none", urls |-> <<>>, i |-> 1, from |-> 0]
IdleCrawl == [pc |-> "idle", failed |-> FALSE, uri |-> Undefined, depth |-> 0,
              doc |-> NoDoc, links |-> {}, queued |-> Undefined, doneCalls |-> 0]

\* ------------------------------------------------------------------- Init
Init ==
  /\ maxDepth = NotSet
  /\ queue = {}
  /\ nextId = 1
  /\ pages = {}
  /\ nextPageId = 1
  /\ pc = [p \in Runs |-> "start"]
  /\ sel = [p \in Runs |-> <<>>]
  /\ claimLog = [p \in Runs |-> <<>>]
  /\ dispatched = [p \in Runs |-> <<>>]
  /\ cb = [k \in Fetches |-> IdleCb]
  /\ enq = [k \in Fetches |-> NoEnq]
  /\ inserted = {}
  /\ skipped = {}
  /\ lastPersist = {}
  /\ visitedAtStart = [p \in Runs |-> {}]
  /\ listeners = {}
  /\ poolEnded = FALSE
  /\ stopPc = "running"
  /\ tables = {}
  /\ exitStatus = NotSet
  /\ faulted = {}
  /\ crawl = [k \in Fetches |-> IdleCrawl]
  /\ conns = [h \in Holders |-> 0]

\* ------------------------------------------------------------------ main
\* the required variables of process.env
RequiredVars == {"DB_HOST", "DB_USER", "DB_PASSWORD", "DB_NAME", "TARGET_URL"}

\* an environment: the required variables that are set and not empty
Envs == SUBSET RequiredVars

\* !DB_HOST || !DB_USER || !DB_PASSWORD || !DB_NAME || !TARGET_URL
MissingRequired(env) == \E v \in RequiredVars : v \notin env

\* main() with a required variable missing: console.error, process.exit(1),
\* before the crawler is constructed and start() is called.
Main(env) ==
  /\ exitStatus = NotSet
  /\ maxDepth = NotSet
  /\ \A p \in Runs : pc[p] = "start"
  /\ MissingRequired(env)
  /\ exitStatus' = 1
  /\ pc' = [p \in Runs |-> "exited"]
  /\ UNCHANGED <<conns, maxDepth, crawlVars, lifeVars, tables, faulted, dbVars, sel,
                 claimLog,
                 dispatched, visitedAtStart, cb, enq, histVars>>

\* main() with every required variable set: the options are read from the
\* environment and the crawler is constructed.
MainConstructs(env, v) ==
  /\ exitStatus = NotSet
  /\ maxDepth = NotSet
  /\ ~MissingRequired(env)
  /\ OptionsMaxDepth(v) \in MaxDepthOptions
  /\ maxDepth' = ConstructMaxDepth(OptionsMaxDepth(v))
  /\ UNCHANGED <<conns, crawlVars, lifeVars, sysVars, dbVars, runVars, cb, enq, histVars>>

\* ------------------------------------------------------------ start()
\* createTables: CREATE TABLE IF NOT EXISTS (twice), then the seed INSERT at
\* depth 0.  Any error (ER_DUP_ENTRY on a second seeding) is caught and logged.
\* Runs are numbered in the order in which they start.
CreateTables(p) ==
  /\ maxDepth # NotSet
  /\ pc[p] = "start"
  /\ \A q \in Runs : q < p => pc[q] # "start"
  /\ ~InsertWaits(queue, targetUrl, 0)
  /\ IF DupEntry(queue, targetUrl)
       THEN /\ skipped' = skipped \cup {[url |-> targetUrl, from |-> SeedFrom]}
            /\ UNCHANGED <<queue, nextId, inserted>>
       ELSE /\ queue' = InsertRow(queue, nextId, targetUrl, 0, 0)
            /\ nextId' = nextId + 1
            /\ inserted' = inserted \cup
                 {[url |-> targetUrl, depth |-> 0, from |-> SeedFrom]}
            /\ UNCHANGED skipped
  /\ pc' = [pc EXCEPT ![p] = "dequeueSelect"]
  /\ visitedAtStart' = [visitedAtStart EXCEPT ![p] = Visited(queue)]
  /\ tables' = tables \cup {"pages", "queue"}
  /\ conns' = Scoped(conns, <<"run", p>>)
  /\ UNCHANGED <<maxDepth, crawlVars, lifeVars, exitStatus, faulted, pages, nextPageId,
                 sel,
                 claimLog, dispatched, cb, enq, lastPersist>>

\* start(): `while (url !== undefined) { new Crawler(...).queue(url); url = await
\* this.dequeueUrl() }`, then "WebXenon stopped."  What start() does with the
\* value a dequeueUrl call returned, up to its next await.
StartLoop(p, url) ==
  IF url # Undefined
    THEN /\ dispatched' = [dispatched EXCEPT ![p] = Append(@, url)]
         /\ pc' = [pc EXCEPT ![p] = "dequeueSelect"]
         /\ UNCHANGED visitedAtStart
    ELSE /\ pc' = [pc EXCEPT ![p] = "stopped"]
         /\ visitedAtStart' = [visitedAtStart EXCEPT ![p] = {}]
         /\ UNCHANGED dispatched

\* dequeueUrl, first query: the SELECT.  No row: return undefined.
DequeueSelect(p) ==
  /\ pc[p] = "dequeueSelect"
  /\ "queue" \in tables
  /\ LET rows == SelectNext(queue, maxDepth)
     IN  IF Len(rows) = 0
           THEN /\ StartLoop(p, Undefined)
                /\ UNCHANGED sel
           ELSE /\ sel' = [sel EXCEPT ![p] = rows]
                /\ pc' = [pc EXCEPT ![p] = "dequeueMark"]
                /\ UNCHANGED <<dispatched, visitedAtStart>>
  /\ conns' = IF Len(SelectNext(queue, maxDepth)) = 0
                THEN Scoped(conns, <<"run", p>>) ELSE Acquire(conns, <<"run", p>>)
  /\ UNCHANGED <<maxDepth, crawlVars, lifeVars, sysVars, dbVars, claimLog, cb, enq,
                 histVars>>

\* dequeueUrl, second query: the UPDATE, then `return rows[0][urlColumnName]`
DequeueMark(p) ==
  /\ pc[p] = "dequeueMark"
  /\ LET ids == {sel[p][i].id : i \in 1..Len(sel[p])}
         url == Field(sel[p][1], urlColumnName)
     IN  /\ queue' = MarkIds(queue, ids)
         /\ claimLog' = [claimLog EXCEPT
                           ![p] = Append(@, [id |-> sel[p][1].id, url |-> url,
                                             fetched |-> FALSE])]
         /\ StartLoop(p, url)
  /\ sel' = [sel EXCEPT ![p] = <<>>]
  /\ conns' = Release(conns, <<"run", p>>)
  /\ UNCHANGED <<maxDepth, crawlVars, lifeVars, sysVars, nextId, pages, nextPageId, cb,
                 enq, histVars>>

\* ------------------------------------------------------------ processPage
\* The crawler library invokes the registered callback with (error, res, done).
\* The fetch boundary answers each hand-out of a frontier row by a claim once:
\* res.options.uri is the url of the row that claim marked; res.options.depth
\* and the fetched document are the boundary's.  Fetches are numbered in the
\* order of their callbacks.  On success the step runs up to the first query,
\* SELECT * FROM pages WHERE url = ?, included: nothing before it reads or
\* writes shared state.
CrawlerCallback(k, p, i, error, depth, doc) ==
  /\ exitStatus = NotSet
  /\ cb[k].pc = "idle"
  /\ \A j \in Fetches : j < k => cb[j].pc # "idle"
  /\ ~claimLog[p][i].fetched
  /\ claimLog' = [claimLog EXCEPT ![p][i].fetched = TRUE]
  /\ \E r \in queue :
       /\ r.id = claimLog[p][i].id
       /\ cb' = [cb EXCEPT ![k] =
                   IF OnCallback(error) = "done"
                     THEN Finished(Done([IdleCb EXCEPT !.failed = error, !.uri = r.url,
                                                       !.depth = depth]), "fetchError")
                     ELSE [IdleCb EXCEPT !.pc = "pageWrite", !.failed = error,
                                         !.uri = r.url, !.depth = depth, !.doc = doc,
                                         !.found = PageRows(pages, r.url) # {}]]
  /\ conns' = IF OnCallback(error) = "done" THEN conns ELSE Acquire(conns, <<"page", k>>)
  /\ UNCHANGED <<maxDepth, crawlVars, lifeVars, sysVars, dbVars, pc, sel, dispatched,
                 enq, histVars,
                 visitedAtStart>>

\* `if (result.length > 0) UPDATE ... else INSERT ...`.  An INSERT that hits the
\* unique key throws: release, rethrow, logged by the outer catch, done().
PageWrite(k) ==
  /\ cb[k].pc = "pageWrite"
  /\ LET c == cb[k]
     IN  /\ lastPersist' = {t \in lastPersist : t.url # c.uri}
                             \cup {PageTuple(c.uri, c.doc)}
         /\ IF c.found
              THEN /\ pages' = UpdatePage(pages, c.uri, c.doc)
                   /\ cb' = [cb EXCEPT ![k].pc = "pageMark"]
                   /\ UNCHANGED nextPageId
              ELSE IF DupPage(pages, c.uri)
                THEN /\ cb' = [cb EXCEPT ![k] = Finished(Done(c), "persistError")]
                     /\ UNCHANGED <<pages, nextPageId>>
                ELSE /\ pages' = InsertPage(pages, nextPageId, c.uri, c.doc)
                     /\ nextPageId' = nextPageId + 1
                     /\ cb' = [cb EXCEPT ![k].pc = "pageMark"]
  /\ conns' = IF ~cb[k].found /\ DupPage(pages, cb[k].uri)
                THEN Release(conns, <<"page", k>>) ELSE conns
  /\ UNCHANGED <<maxDepth, crawlVars, lifeVars, sysVars, queue, nextId, runVars, enq,
                 inserted, skipped>>

\* UPDATE queue SET is_crawled = 1 WHERE url = ?; release; then, if
\* depth < maxDepth, extract the links and call queueUrls(links) without await;
\* log; done().
PageMark(k) ==
  /\ cb[k].pc = "pageMark"
  /\ LET c == cb[k]
         links == ExtractLinks(c.doc)
     IN  /\ queue' = MarkUrl(queue, c.uri)
         /\ enq' = [enq EXCEPT ![k] =
                      IF Expands(c.depth, maxDepth)
                        THEN [pc |-> IF links = <<>> THEN "commit" ELSE "insert",
                              urls |-> links, i |-> 1, from |-> c.depth]
                        ELSE NoEnq]
         /\ cb' = [cb EXCEPT ![k] = Finished(Done(c), "crawled")]
  /\ conns' = IF Expands(cb[k].depth, maxDepth)
                THEN Acquire(Release(conns, <<"page", k>>), <<"enq", k>>)
                ELSE Release(conns, <<"page", k>>)
  /\ UNCHANGED <<maxDepth, crawlVars, lifeVars, sysVars, nextId, pages, nextPageId,
                 runVars, histVars>>

\* -------------------------------------------------------------- queueUrls
\* One pass of `for (const url of urls)`: INSERT INTO queue (url, depth)
\* VALUES (url, 0) inside the transaction; ER_DUP_ENTRY is swallowed.
QueueInsert(k) ==
  /\ enq[k].pc = "insert"
  /\ LET e == enq[k]
         url == e.urls[e.i]
     IN  /\ ~InsertWaits(queue, url, k)
         /\ IF DupEntry(queue, url)
              THEN /\ skipped' = skipped \cup {[url |-> url, from |-> e.from]}
                   /\ UNCHANGED <<queue, nextId, inserted>>
              ELSE /\ queue' = InsertRow(queue, nextId, url, QueuedDepth(e.from), k)
                   /\ nextId' = nextId + 1
                   /\ inserted' = inserted \cup
                        {[url |-> url, depth |-> QueuedDepth(e.from), from |-> e.from]}
                   /\ UNCHANGED skipped
         /\ enq' = [enq EXCEPT ![k].i = e.i + 1,
                               ![k].pc = IF e.i = Len(e.urls) THEN "commit" ELSE "insert"]
  /\ UNCHANGED <<conns, maxDepth, crawlVars, lifeVars, sysVars, pages, nextPageId,
                 runVars, cb, lastPersist>>

\* connection.commit(); release
QueueCommit(k) ==
  /\ enq[k].pc = "commit"
  /\ queue' = CommitRows(queue, k)
  /\ enq' = [enq EXCEPT ![k] = [NoEnq EXCEPT !.pc = "done", !.from = enq[k].from]]
  /\ conns' = Release(conns, <<"enq", k>>)
  /\ UNCHANGED <<maxDepth, crawlVars, lifeVars, sysVars, nextId, pages, nextPageId,
                 runVars, cb, histVars>>

\* -------------------------------------------------------- failing statements
\* createTables with a CREATE TABLE that fails (step names the table): the
\* statements after it, the seed INSERT included, are skipped; the catch logs
\* the error and createTables returns normally, so start() goes on to dequeueUrl.
CreateTablesFails(p, step) ==
  /\ maxDepth # NotSet
  /\ pc[p] = "start"
  /\ \A q \in Runs : q < p => pc[q] # "start"
  /\ tables' = IF step = "queue" THEN tables \cup {"pages"} ELSE tables
  /\ faulted' = faulted \cup {<<"createTables", p>>}
  /\ pc' = [pc EXCEPT ![p] = "dequeueSelect"]
  /\ visitedAtStart' = [visitedAtStart EXCEPT ![p] = Visited(queue)]
  /\ conns' = Scoped(conns, <<"run", p>>)
  /\ UNCHANGED <<maxDepth, crawlVars, lifeVars, exitStatus, dbVars, sel, claimLog,
                 dispatched, cb, enq, histVars>>

\* (mutation) a catch block in dequeueUrl that rethrows
OnDequeueErrorRethrow(step) == [returns |-> Undefined, throws |-> TRUE]

\* dequeueUrl's `catch (error) { log; return undefined; }`
OnDequeueError(step) == [returns |-> Undefined, throws |-> FALSE]

\* What start() does when a dequeueUrl call ended by an error: a value that was
\* returned goes through the loop; an exception lands in start()'s own catch,
\* which logs it and ends the run.
AfterDequeueError(p, step) ==
  LET out == OnDequeueError(step)
  IN  IF out.throws
        THEN /\ pc' = [pc EXCEPT ![p] = "stopped"]
             /\ faulted' = faulted \cup {<<step, p>>, <<"dequeueThrew", p>>}
             /\ visitedAtStart' = [visitedAtStart EXCEPT ![p] = {}]
             /\ UNCHANGED dispatched
        ELSE /\ StartLoop(p, out.returns)
             /\ faulted' = faulted \cup {<<step, p>>}

\* dequeueUrl with a SELECT that fails (always when the table is missing)
DequeueSelectFails(p) ==
  /\ pc[p] = "dequeueSelect"
  /\ AfterDequeueError(p, "select")
  /\ conns' = Scoped(conns, <<"run", p>>)
  /\ UNCHANGED <<maxDepth, crawlVars, lifeVars, tables, exitStatus, dbVars, sel, claimLog,
                 cb, enq, histVars>>

\* dequeueUrl with an UPDATE that fails: no row is marked
DequeueMarkFails(p) ==
  /\ pc[p] = "dequeueMark"
  /\ AfterDequeueError(p, "mark")
  /\ sel' = [sel EXCEPT ![p] = <<>>]
  /\ conns' = Release(conns, <<"run", p>>)
  /\ UNCHANGED <<maxDepth, crawlVars, lifeVars, tables, exitStatus, dbVars, claimLog,
                 cb, enq, histVars>>

\* processPage with a page or mark statement that fails: release, rethrow, the
\* outer catch logs "Error processing URL", done().
PersistFails(k) ==
  /\ cb[k].pc \in {"pageWrite", "pageMark"}
  /\ cb' = [cb EXCEPT ![k] = Finished(Done(cb[k]), "persistError")]
  /\ faulted' = faulted \cup {<<"persist", k>>}
  /\ conns' = Release(conns, <<"page", k>>)
  /\ UNCHANGED <<maxDepth, crawlVars, lifeVars, tables, exitStatus, dbVars, runVars, enq,
                 histVars>>

\* (mutation) a rollback that also undoes the marks other connections made
RollbackAndUnmark(q, txns) ==
  {[r EXCEPT !.is_crawled = 0] : r \in {x \in q : x.txn \notin txns}}

\* connection.rollback(), and what the server does with the transaction of a
\* connection that is dropped
Rollback(q, txns) == {r \in q : r.txn \notin txns}

\* the process ends: every start() loop, callback and queueUrls call ends with
\* it, and start() is not called any more
Exited(status) ==
  /\ exitStatus' = status
  /\ pc' = [p \in Runs |-> IF pc[p] = "stopped" THEN pc[p] ELSE "exited"]
  /\ cb' = [k \in Fetches |->
              IF cb[k].pc \in {"pageWrite", "pageMark"}
                THEN Finished(cb[k], "killed") ELSE cb[k]]

\* queueUrls with an INSERT (other than ER_DUP_ENTRY) or a COMMIT that fails:
\* rollback, rethrow, release.  processPage did not await the call and attached
\* no handler, so the rejection is unhandled: the runtime either ends the
\* process with status 1 or only warns, depending on its version and flags.
EnqueueFails(k, crash) ==
  /\ enq[k].pc \in {"insert", "commit"}
  /\ faulted' = faulted \cup {<<"enqueue", k>>}
  /\ IF crash
       THEN /\ Exited(1)
            /\ queue' = Rollback(queue, Fetches)
            /\ enq' = [j \in Fetches |->
                         IF enq[j].pc \in {"insert", "commit"}
                           THEN [NoEnq EXCEPT !.pc = "failed", !.from = enq[j].from]
                           ELSE enq[j]]
       ELSE /\ queue' = Rollback(queue, {k})
            /\ enq' = [enq EXCEPT ![k] = [NoEnq EXCEPT !.pc = "failed",
                                                       !.from = enq[k].from]]
            /\ UNCHANGED <<exitStatus, pc, cb>>
  /\ conns' = IF crash THEN PoolClosed ELSE Release(conns, <<"enq", k>>)
  /\ UNCHANGED <<maxDepth, crawlVars, lifeVars, tables, nextId, pages, nextPageId, sel,
                 claimLog, dispatched, visitedAtStart, histVars>>

\* ------------------------------------------------------------------ stop()
\* EventEmitter.on(event, listener)
On(l, event) == l \cup {event}

\* EventEmitter.removeAllListeners() without an event name: every listener of
\* every event is removed
RemoveAllListeners(l) == {}

\* a fetch is in flight: a row handed out by a claim whose callback has not
\* come yet, or a callback that has not reached done()
FetchInFlight ==
  \/ \E p \in Runs : \E i \in 1..Len(claimLog[p]) : ~claimLog[p][i].fetched
  \/ \E k \in Fetches : cb[k].pc \in {"pageWrite", "pageMark"}

\* stop(): this.crawler.on("drain", () => { log; this.pool.end() }), then
\* this.crawler.removeAllListeners(), then the log line.  No await: one step.
\* It sets nothing that start() or dequeueUrl reads.
Stop ==
  /\ stopPc = "running"
  /\ exitStatus = NotSet
  /\ listeners' = RemoveAllListeners(On(listeners, "drain"))
  /\ stopPc' = "stopping"
  /\ UNCHANGED <<conns, maxDepth, crawlVars, sysVars, dbVars, runVars, cb, enq,
                 histVars, poolEnded>>

\* The crawler library emits "drain" once no fetch is in flight any more; the
\* listeners registered for it run.  Before stop() nothing listens.
Drain ==
  /\ stopPc = "stopping"
  /\ ~FetchInFlight
  /\ poolEnded' = (poolEnded \/ "drain" \in listeners)
  /\ stopPc' = "drained"
  /\ UNCHANGED <<conns, maxDepth, crawlVars, sysVars, dbVars, runVars, cb, enq,
                 histVars, listeners>>

\* ------------------------------------------- the older class, src/WebCrawler.ts
\* const { ..., maxDepth = 0, ... } = options: the default replaces undefined only
DestructureMaxDepth(opt) == IF opt = NotSet THEN 0 ELSE opt

\* new WebCrawler(..., options) of the older class
ConstructCrawler(opt) ==
  /\ exitStatus = NotSet
  /\ maxDepth = NotSet
  /\ maxDepth' = DestructureMaxDepth(opt)
  /\ UNCHANGED <<conns, crawlVars, lifeVars, sysVars, dbVars, runVars, cb, enq, histVars>>

\* INSERT IGNORE INTO queue (url, is_crawled) VALUES (url, false).  The table
\* of this class has no depth column: its rows carry depth 0.
InsertIgnore(q, id, url) == IF DupEntry(q, url) THEN q ELSE InsertRow(q, id, url, 0, 0)

\* start() on a database without tables: CREATE TABLE IF NOT EXISTS twice,
\* then queueUrls([targetUrl]), not awaited.
CrawlStart ==
  /\ maxDepth # NotSet
  /\ tables = {}
  /\ tables' = {"pages", "queue"}
  /\ queue' = InsertIgnore(queue, nextId, targetUrl)
  /\ nextId' = IF DupEntry(queue, targetUrl) THEN nextId ELSE nextId + 1
  /\ conns' = Scoped(Scoped(Scoped(conns, <<"run", 1>>), <<"run", 1>>), <<"run", 1>>)
  /\ UNCHANGED <<maxDepth, crawlVars, lifeVars, exitStatus, faulted, pages,
                 nextPageId, runVars, cb, enq, histVars>>

\* the uris the crawler library calls crawl back with
CrawlUris == {targetUrl, UrlA}

\* $("a[href^=" + targetUrl + "]") and `if (link)`: the set of links, each of
\* them given to a queueUrls call of its own
CrawlLinks(doc) == Range0(FilterSeq(doc.hrefs, targetUrl))

\* crawl(error, res, done), up to its first await.  With an error:
\* console.error, then done() and `await this.getNextUrl()`.  Without:
\* title, description, url, rawHtml, then `await this.pool.getConnection()`.
CrawlEntered(k, uri, error, depth, doc) ==
  /\ "queue" \in tables
  /\ crawl[k].pc = "idle"
  /\ \A j \in Fetches : j < k => crawl[j].pc # "idle"
  /\ crawl' = [crawl EXCEPT ![k] =
                 IF error
                   THEN Done([IdleCrawl EXCEPT !.pc = "next", !.failed = TRUE,
                                               !.uri = uri, !.depth = depth])
                   ELSE [IdleCrawl EXCEPT !.pc = "persist", !.uri = uri,
                                          !.depth = depth, !.doc = doc]]
  /\ conns' = Acquire(conns, <<"crawl", k>>)
  /\ UNCHANGED <<maxDepth, lifeVars, sysVars, dbVars, runVars, cb, enq, histVars>>

\* INSERT INTO pages ... ON DUPLICATE KEY UPDATE ...; then, if
\* res.options.depth < this.maxDepth, one queueUrls([link]) per link, not
\* awaited; finally release; then `await this.markUrlAsCrawled(url)`.
CrawlPersist(k) ==
  /\ crawl[k].pc = "persist"
  /\ LET c == crawl[k]
     IN  /\ IF DupPage(pages, c.uri)
              THEN pages' = UpdatePage(pages, c.uri, c.doc) /\ UNCHANGED nextPageId
              ELSE /\ pages' = InsertPage(pages, nextPageId, c.uri, c.doc)
                   /\ nextPageId' = nextPageId + 1
         /\ crawl' = [crawl EXCEPT ![k].pc = "mark", ![k].doc = NoDoc,
                                    ![k].links = IF Expands(c.depth, maxDepth)
                                                   THEN CrawlLinks(c.doc) ELSE {}]
  /\ conns' = Acquire(Release(conns, <<"crawl", k>>), <<"crawl", k>>)
  /\ UNCHANGED <<maxDepth, lifeVars, sysVars, queue, nextId, runVars, cb, enq, histVars>>

\* The page statement fails: `finally { conn.release() }`, and the exception
\* leaves crawl.  The done() after the else branch is not reached.
CrawlPersistFails(k) ==
  /\ crawl[k].pc = "persist"
  /\ crawl' = [crawl EXCEPT ![k].pc = "threw", ![k].doc = NoDoc]
  /\ conns' = Release(conns, <<"crawl", k>>)
  /\ UNCHANGED <<maxDepth, lifeVars, sysVars, dbVars, runVars, cb, enq, histVars>>

\* one of the queueUrls([link]) calls crawl started: INSERT IGNORE, release
CrawlQueueUrls(k, url) ==
  /\ url \in crawl[k].links
  /\ queue' = InsertIgnore(queue, nextId, url)
  /\ nextId' = IF DupEntry(queue, url) THEN nextId ELSE nextId + 1
  /\ crawl' = [crawl EXCEPT ![k].links = @ \ {url}]
  /\ conns' = Scoped(conns, <<"enq", k>>)
  /\ UNCHANGED <<maxDepth, lifeVars, sysVars, pages, nextPageId, runVars, cb, enq,
                 histVars>>

\* markUrlAsCrawled: UPDATE queue SET is_crawled = true WHERE url = ?; release;
\* back in crawl: done(), then `await this.getNextUrl()`.
CrawlMark(k) ==
  /\ crawl[k].pc = "mark"
  /\ queue' = MarkUrl(queue, crawl[k].uri)
  /\ crawl' = [crawl EXCEPT ![k] = Done([@ EXCEPT !.pc = "next"])]
  /\ conns' = Acquire(Release(conns, <<"crawl", k>>), <<"crawl", k>>)
  /\ UNCHANGED <<maxDepth, lifeVars, sysVars, nextId, pages, nextPageId, runVars, cb,
                 enq, histVars>>

\* The UPDATE of markUrlAsCrawled fails: release in its finally, the exception
\* goes through crawl, which has no handler.  done() is not reached.
CrawlMarkFails(k) ==
  /\ crawl[k].pc = "mark"
  /\ crawl' = [crawl EXCEPT ![k].pc = "threw"]
  /\ conns' = Release(conns, <<"crawl", k>>)
  /\ UNCHANGED <<maxDepth, lifeVars, sysVars, dbVars, runVars, cb, enq, histVars>>

\* getNextUrl: `const [row] = await conn.query(SELECT url ... LIMIT 1 FOR
\* UPDATE)` binds row to the array of result rows, and an array has no
\* property named by the url column: the function returns null whatever the
\* table holds.
GetNextUrl(q) ==
  LET rows == {r \in q : r.txn = 0 /\ r.is_crawled = 0}
      row == [length |-> Cardinality(rows)]
  IN  Field(row, urlColumnName)

\* `const nextUrl = await this.getNextUrl(); if (nextUrl)
\* this.crawler.queue(nextUrl)`
CrawlNext(k) ==
  /\ crawl[k].pc = "next"
  /\ crawl' = [crawl EXCEPT ![k].pc = "returned",
                            ![k].queued = IF Truthy(GetNextUrl(queue))
                                            THEN GetNextUrl(queue) ELSE Undefined]
  /\ conns' = Release(conns, <<"crawl", k>>)
  /\ UNCHANGED <<maxDepth, lifeVars, sysVars, dbVars, runVars, cb, enq, histVars>>

\* the older class on its own, with page and mark statements that can fail
NextCrawl ==
  \/ maxDepth = NotSet /\ \E opt \in MaxDepthOptions : ConstructCrawler(opt)
  \/ CrawlStart
  \/ \E k \in Fetches :
       /\ crawl[k].pc = "idle"
       /\ \E uri \in CrawlUris, error \in BOOLEAN, depth \in 0..maxDepth, doc \in Docs :
            CrawlEntered(k, uri, error, depth, doc)
  \/ \E k \in Fetches : CrawlPersist(k)
  \/ \E k \in Fetches : CrawlPersistFails(k)
  \/ \E k \in Fetches : \E url \in crawl[k].links : CrawlQueueUrls(k, url)
  \/ \E k \in Fetches : CrawlMark(k)
  \/ \E k \in Fetches : CrawlMarkFails(k)
  \/ \E k \in Fetches : CrawlNext(k)

SpecCrawl == Init /\ [][NextCrawl]_vars

Next ==
  \/ maxDepth = NotSet /\ \E env \in Envs : Main(env)
  \/ maxDepth = NotSet /\ \E env \in Envs, v \in MaxDepthEnv : MainConstructs(env, v)
  \/ \E p \in Runs : CreateTables(p)
  \/ \E p \in Runs : DequeueSelect(p)
  \/ \E p \in Runs : DequeueMark(p)
  \/ \E k \in Fetches, p \in Runs :
       \* the guards of CrawlerCallback that do not depend on what the boundary chooses
       /\ cb[k].pc = "idle"
       /\ \E i \in 1..Len(claimLog[p]) :
            /\ ~claimLog[p][i].fetched
            /\ \E error \in BOOLEAN, depth \in 0..maxDepth, doc \in Docs :
                 CrawlerCallback(k, p, i, error, depth, doc)
  \/ \E k \in Fetches : PageWrite(k)
  \/ \E k \in Fetches : PageMark(k)
  \/ \E k \in Fetches : QueueInsert(k)
  \/ \E k \in Fetches : QueueCommit(k)

\* a crawl on which stop() is never called and no statement fails except on
\* a unique key
Spec == Init /\ [][Next]_vars

\* the same crawl with stop() called at any moment
NextStop ==
  \/ Next
  \/ Stop
  \/ Drain

SpecStop == Init /\ [][NextStop]_vars

\* the same crawl with claims whose SELECT or UPDATE fails
NextClaimFaults ==
  \/ Next
  \/ \E p \in Runs : DequeueSelectFails(p)
  \/ \E p \in Runs : DequeueMarkFails(p)

SpecClaimFaults == Init /\ [][NextClaimFaults]_vars

\* the same crawl with statements that fail anywhere
NextFaults ==
  \/ Next
  \/ \E p \in Runs, step \in {"pages", "queue"} : CreateTablesFails(p, step)
  \/ \E p \in Runs : DequeueSelectFails(p)
  \/ \E p \in Runs : DequeueMarkFails(p)
  \/ \E k \in Fetches : PersistFails(k)
  \/ \E k \in Fetches, crash \in BOOLEAN : EnqueueFails(k, crash)

SpecFaults == Init /\ [][NextFaults]_vars

\* the same crawl with queueUrls calls that fail and roll back
NextEnqueueFaults ==
  \/ Next
  \/ \E k \in Fetches, crash \in BOOLEAN : EnqueueFails(k, crash)

SpecEnqueueFaults == Init /\ [][NextEnqueueFaults]_vars

\* ============================================================== properties
Range(s) == {s[i] : i \in 1..Len(s)}

\* the claim operations that found and marked a row: (run, index in its log)
ClaimOps == UNION {{<<p, i>> : i \in 1..Len(claimLog[p])} : p \in Runs}
ClaimOf(op) == claimLog[op[1]][op[2]]

AllStopped == \A p \in Runs : pc[p] = "stopped"

\* C1: no two claim operations hand out the same frontier row.
C1_ClaimExclusive ==
  \A a, b \in ClaimOps : a # b => ClaimOf(a).id # ClaimOf(b).id

\* C2: the frontier holds at most one row per url, and a seed or enqueue of a
\* url that is already present leaves exactly one row for it.
C2_OneRowPerUrl ==
  /\ \A r1, r2 \in queue : r1.url = r2.url => r1 = r2
  /\ \A s \in skipped : Cardinality({r \in queue : r.url = s.url}) = 1

\* C2 witness: a second seeding and a repeated enqueue were both skipped, while
\* another queueUrls call was still inserting.
C2_Witness ==
  /\ \E s \in skipped : s.from = SeedFrom
  /\ \E s \in skipped : s.from # SeedFrom
  /\ \E k \in Fetches : enq[k].pc = "insert"

\* C3: when the run has ended, every frontier url with depth <= maxDepth has
\* been claimed and handed to a fetch worker.
C3_AllDispatchedAtEnd ==
  AllStopped =>
    \A r \in queue : r.depth <= maxDepth =>
      /\ r.is_crawled = 1
      /\ \E p \in Runs : r.url \in Range(dispatched[p])

\* C4: a page processed at depth = maxDepth starts no enqueue, and no frontier
\* row or enqueue attempt comes from a page at depth maxDepth.
C4_NoEnqueueAtMaxDepth ==
  /\ \A k \in Fetches :
       /\ enq[k].pc # "none" => enq[k].from < maxDepth
       /\ (cb[k].pc = "done" /\ cb[k].depth = maxDepth) => enq[k].pc = "none"
  /\ \A x \in inserted : x.from < maxDepth
  /\ \A s \in skipped : s.from < maxDepth

\* C4 witness: a page at depth maxDepth was persisted and marked, another page
\* below maxDepth had its links inserted.
C4_Witness ==
  /\ \E k \in Fetches :
       cb[k].outcome = "crawled" /\ cb[k].depth = maxDepth /\ enq[k].pc = "none"
  /\ \E x \in inserted : x.from # SeedFrom

\* C5: every row inserted from the links of a page at depth d has depth d + 1.
C5_LinksQueuedAtNextDepth ==
  \A x \in inserted : x.from # SeedFrom => x.depth = x.from + 1

\* C6: a url first queued from a depth-0 page and met again on a depth-1 page
\* has exactly one row, at depth 1.
C6_FirstDiscoveryWins ==
  \A x \in inserted, s \in skipped :
    (x.url = s.url /\ x.from = 0 /\ s.from = 1) =>
      /\ Cardinality({r \in queue : r.url = x.url}) = 1
      /\ \A r \in queue : r.url = x.url => r.depth = 1

\* a pages row without its id
Stored(r) ==
  [url |-> r.url, title |-> r.title, description |-> r.description,
   raw_html |-> r.raw_html]

\* C7: after any persists for a url, the page store holds exactly one row for
\* it, carrying the title, description and raw content of the last persist.
C7_UpsertLastWins ==
  \A t \in lastPersist :
    /\ Cardinality(PageRows(pages, t.url)) = 1
    /\ \A r \in PageRows(pages, t.url) : Stored(r) = t

\* a frontier row that is marked keeps its id, url and mark
StaysClaimed ==
  \A r \in queue : r.is_crawled = 1 =>
    \E r2 \in queue' : r2.id = r.id /\ r2.url = r.url /\ r2.is_crawled = 1

\* the step in which the callback is entered with an error
FetchFails(k) == cb[k].pc = "idle" /\ cb'[k].failed

\* no start() loop, callback or queueUrls call is still running
Quiescent ==
  /\ AllStopped
  /\ \A k \in Fetches : cb[k].pc \in {"idle", "done"} /\ enq[k].pc \in {"none", "done"}

\* C8: after the fetch of a claimed url failed (and no other fetch of it
\* succeeded), the page store has no row for it, its frontier row is marked,
\* and the crawl has gone on to the next claimable url: when everything has
\* come to rest no claimable row is left.
C8_FailedFetchContinues ==
  \A k \in Fetches :
    ( /\ cb[k].failed
      /\ \A j \in Fetches : (cb[j].pc # "idle" /\ cb[j].uri = cb[k].uri) => cb[j].failed )
    => /\ PageRows(pages, cb[k].uri) = {}
       /\ \E r \in queue : r.url = cb[k].uri /\ r.is_crawled = 1
       /\ Quiescent => Eligible(queue, maxDepth) = {}

\* The parts of C8 that do not depend on the claim loop: a failed fetch writes
\* no page, marked rows stay marked, and the error path changes neither the
\* tables nor any run.
C8_ErrorPathFrame ==
  /\ [](\A k \in Fetches : cb[k].failed =>
          /\ cb[k].outcome = "fetchError"
          /\ (\A j \in Fetches :
                (cb[j].pc # "idle" /\ cb[j].uri = cb[k].uri) => cb[j].failed)
               => PageRows(pages, cb[k].uri) = {}
          /\ \E r \in queue : r.url = cb[k].uri /\ r.is_crawled = 1)
  /\ [][/\ StaysClaimed
        /\ \A k \in Fetches :
             FetchFails(k) => UNCHANGED <<dbVars, pc, sel, dispatched, enq, histVars>>]_vars

\* C9: a claim that finds an eligible row marks it and returns that row's url.
C9_ClaimReturnsUrl ==
  \A op \in ClaimOps :
    \E r \in queue :
      r.id = ClaimOf(op).id /\ r.is_crawled = 1 /\ ClaimOf(op).url = r.url

\* C10: a run on an empty frontier, alone and with no links enqueued, claims
\* the seed once, dispatches exactly that one fetch and stops.
C10_SeedOnlyRun ==
  \A p \in Runs :
    ( /\ pc[p] = "stopped"
      /\ \A q \in Runs \ {p} : pc[q] = "start"
      /\ \A k \in Fetches : enq[k].pc = "none" )
    => /\ Len(claimLog[p]) = 1
       /\ claimLog[p][1].url = targetUrl
       /\ dispatched[p] = <<targetUrl>>

\* a fetch is outstanding: one in flight, or a queueUrls call it started
Outstanding ==
  \/ FetchInFlight
  \/ \E k \in Fetches : enq[k].pc \in {"insert", "commit"}

\* C11: a run ends only in a step in which its claim attempt found no eligible
\* row and no fetch is outstanding.
C11_IdleOnlyWhenDrained ==
  [][\A p \in Runs :
       (pc[p] # "stopped" /\ pc'[p] = "stopped") =>
         /\ pc[p] = "dequeueSelect"
         /\ Eligible(queue, maxDepth) = {}
         /\ ~Outstanding]_vars

\* C12: a run never claims a url that was already marked when it started,
\* and while it runs those rows stay marked: re-seeding resets no flag and a
\* claim returns no marked row.
C12_NoRefetchAcrossRuns ==
  [][\A p \in Runs :
       /\ \A u \in visitedAtStart'[p] : \E r \in queue' : r.url = u /\ r.is_crawled = 1
       /\ Len(claimLog'[p]) > Len(claimLog[p]) =>
            \A r \in queue :
              r.id = claimLog'[p][Len(claimLog'[p])].id => r.url \notin visitedAtStart[p]
       /\ Len(dispatched'[p]) > Len(dispatched[p]) =>
            dispatched'[p][Len(dispatched'[p])] \notin visitedAtStart[p]]_vars

\* C12 witness: a run that started on a frontier whose seed an earlier,
\* finished run had visited re-seeded it (skipped) and has selected another row.
C12_Witness ==
  \E p, q \in Runs :
    /\ q < p /\ pc[q] = "stopped" /\ pc[p] = "dequeueMark"
    /\ targetUrl \in visitedAtStart[p]
    /\ \E r \in queue : r.id = sel[p][1].id /\ r.url # targetUrl
    /\ \E s \in skipped : s.url = targetUrl /\ s.from = SeedFrom

\* C14: once stop was requested no run starts a new claim, and when the
\* fetches in flight have drained the pool is ended.
C14_StopHaltsAndReleases ==
  [][/\ stopPc # "running" =>
          \A p \in Runs : pc[p] = "dequeueSelect" => pc'[p] = "dequeueSelect"
     /\ (stopPc = "stopping" /\ stopPc' = "drained") => poolEnded']_vars

\* C15: every url that link extraction put into the frontier, or tried to,
\* starts with the target url; no row exists for a link outside the prefix.
C15_ScopeInvariant ==
  /\ \A x \in inserted : x.from # SeedFrom => StartsWith(x.url, targetUrl)
  /\ \A x \in skipped : StartsWith(x.url, targetUrl)
  /\ \A r \in queue : StartsWith(r.url, targetUrl) /\ r.url # UrlX

\* C15 witness: the links of the index page, which has a link outside the
\* prefix, were enqueued and committed.
C15_Witness ==
  /\ \E x \in inserted : x.url = UrlA /\ x.from # SeedFrom
  /\ \E r \in queue : r.url = UrlB /\ r.txn = 0
  /\ \E k \in Fetches : enq[k].pc = "done"

\* C16: a startup error ends the run with a non-zero status before the seed
\* is inserted and before any claim or fetch: with a required variable missing
\* nothing was started, and a run whose schema provisioning failed has exited
\* without seeding and without reaching dequeueUrl.
C16_StartupErrorAborts ==
  /\ (exitStatus # NotSet /\ faulted = {}) =>
       /\ exitStatus # 0
       /\ queue = {} /\ tables = {}
       /\ \A p \in Runs : pc[p] = "exited" /\ claimLog[p] = <<>>
  /\ \A p \in Runs : <<"createTables", p>> \in faulted =>
       /\ exitStatus \notin {NotSet, 0}
       /\ pc[p] = "exited"
       /\ claimLog[p] = <<>> /\ <<"select", p>> \notin faulted

\* C17: the row a claim selects is the least eligible row by (depth, id): no
\* other unclaimed row within maxDepth has a smaller depth, or the same depth
\* and a smaller id.
C17_ClaimTakesMinimum ==
  [][\A p \in Runs :
       (pc[p] = "dequeueSelect" /\ pc'[p] = "dequeueMark") =>
         \E r \in queue :
           /\ r.id = sel'[p][1].id
           /\ r.txn = 0 /\ r.is_crawled = 0 /\ r.depth <= maxDepth
           /\ \A o \in queue :
                (o.txn = 0 /\ o.is_crawled = 0 /\ o.depth <= maxDepth /\ o # r) =>
                  (r.depth < o.depth \/ (r.depth = o.depth /\ r.id < o.id))]_vars

\* C17 witness: a claim took row 2 while row 3, committed with it, was unclaimed.
C17_Witness ==
  \E p \in Runs :
    /\ Len(claimLog[p]) = 1 /\ claimLog[p][1].id = 2
    /\ \E r \in queue : r.id = 3 /\ r.txn = 0 /\ r.is_crawled = 0 /\ r.depth <= maxDepth
    /\ \A k \in Fetches : enq[k].pc \in {"none", "done"}

ClaimFails(p) ==
  \/ <<"select", p>> \in faulted' /\ <<"select", p>> \notin faulted
  \/ <<"mark", p>> \in faulted' /\ <<"mark", p>> \notin faulted

AtRest ==
  /\ \A p \in Runs : pc[p] \in {"stopped", "exited"}
  /\ \A k \in Fetches :
       cb[k].pc \in {"idle", "done"} /\ enq[k].pc \in {"none", "done", "failed"}

\* C20: after persisting a page or enqueueing its links failed, the frontier
\* row of that url is still marked, the process has not been ended by the
\* failure, and the crawl has gone on: once everything is at rest no claimable
\* row is left.
C20_PersistFailureContinues ==
  \A k \in Fetches :
    (cb[k].outcome = "persistError" \/ enq[k].pc = "failed") =>
      /\ \E r \in queue : r.url = cb[k].uri /\ r.is_crawled = 1
      /\ exitStatus = NotSet
      /\ AtRest => Eligible(queue, maxDepth) = {}

\* the fetches in flight: the rows handed out by a claim whose callback has not
\* come yet, and the callbacks that have not reached done()
InFlight ==
  {<<"handed", op>> : op \in {o \in ClaimOps : ~ClaimOf(o).fetched}}
    \cup {<<"callback", k>> : k \in {j \in Fetches : cb[j].pc \in {"pageWrite", "pageMark"}}}

C21_ClaimedMonotonicRowsPermanent ==
  [][/\ \A r \in queue :
          (r.is_crawled = 1 \/ r.txn = 0) =>
            \E r2 \in queue' :
              /\ r2.id = r.id /\ r2.url = r.url /\ r2.depth = r.depth
              /\ r2.is_crawled >= r.is_crawled
              /\ r2.txn = 0
     /\ \A r \in queue :
          (\A r2 \in queue' : r2.id # r.id) =>
            /\ r.txn # 0 /\ r.is_crawled = 0
            /\ enq[r.txn].pc \in {"insert", "commit"} /\ enq'[r.txn].pc = "failed"]_vars

\* C21 witness: with the seed marked by a claim and by a page persist, a second
\* run re-seeded, and a queueUrls call that had inserted a row was rolled back.
C21_Witness ==
  /\ \E r \in queue : r.url = targetUrl /\ r.is_crawled = 1
  /\ \E k \in Fetches :
       /\ cb[k].outcome = "crawled" /\ enq[k].pc = "failed"
       /\ \E x \in inserted : x.from = enq[k].from /\ \A r \in queue : r.url # x.url
  /\ \E s \in skipped : s.url = targetUrl /\ s.from = SeedFrom

\* C23: the depth limit the crawler works with is the configured maximum depth
\* for every configured value >= 0, zero included, and the default only when
\* none is configured: whichever MAX_DEPTH the construction step read, the
\* limit that claims and the expansion gate use afterwards is that number, or
\* the default if the variable was unset or empty.
C23_DepthLimitIsConfigured ==
  [][\A env \in Envs, v \in MaxDepthEnv :
       MainConstructs(env, v) =>
         maxDepth' = IF Truthy(v) THEN ParseInt(v) ELSE DefaultMaxDepth]_vars

\* C22: every invocation of the fetch-completion callback, crawl or
\* processPage, calls done() exactly once on every path: never twice, and once
\* it has ended (by a fetch error, after a persist that succeeded, or by a
\* storage error thrown while persisting or marking) exactly once.
C22_DoneExactlyOnce ==
  /\ \A k \in Fetches :
       /\ cb[k].doneCalls <= 1
       /\ cb[k].outcome \in {"fetchError", "crawled", "persistError"} =>
            cb[k].doneCalls = 1
  /\ \A k \in Fetches :
       /\ crawl[k].doneCalls <= 1
       /\ crawl[k].pc \in {"next", "returned", "threw"} => crawl[k].doneCalls = 1

\* the operation is between the getConnection and the release of a connection
InProgress(h) ==
  CASE h[1] = "run"   -> pc[h[2]] = "dequeueMark"
    [] h[1] = "page"  -> cb[h[2]].pc \in {"pageWrite", "pageMark"}
    [] h[1] = "enq"   -> enq[h[2]].pc \in {"insert", "commit"}
    [] h[1] = "crawl" -> crawl[h[2]].pc \in {"persist", "mark", "next"}

\* C24: every storage operation gives back the connection it took exactly
\* once on every path: no operation ever holds more than one or has released
\* more than it took, and an operation that is not in progress holds none, so
\* with no operation in progress no connection is checked out.
C24_ConnectionsReleased ==
  \A h \in Holders :
    /\ conns[h] \in {0, 1}
    /\ ~InProgress(h) => conns[h] = 0

\* C24 witness: a createTables call whose statement failed, a page persist that
\* failed and a queueUrls call that was rolled back have all given their
\* connection back, and the process is still running.
C24_Witness ==
  /\ exitStatus = NotSet
  /\ \E p \in Runs : <<"createTables", p>> \in faulted /\ conns[<<"run", p>>] = 0
  /\ \E k \in Fetches :
       /\ <<"persist", k>> \in faulted /\ cb[k].outcome = "persistError"
       /\ conns[<<"page", k>>] = 0
  /\ \E k \in Fetches : enq[k].pc = "failed" /\ conns[<<"enq", k>>] = 0

====
